---- MODULE Spec2Model ----
(***************************************************************************)
(* AliEmcalIterableContainerT<T> and its nested iterator                   *)
(* (PWG/EMCAL/EMCALbase/AliEmcalIterableContainer.h).                      *)
(*                                                                         *)
(* The iterable container is a read-only view on an AliEmcalContainer.     *)
(* The state is the backing container (entries, acceptance of each entry,  *)
(* the number GetNAcceptEntries reports), the view's three data members,   *)
(* one iterator, and the client's position in one of its uses of the view: *)
(* plain calls, work with an iterator, or the two traversal loops.  A      *)
(* second view and a second iterator serve the uses that need two of them. *)
(*                                                                         *)
(* TArrayI (ROOT) is used as ROOT defines it: Set(n) on a fresh array      *)
(* gives n zero-initialised slots; operator[] on an index outside          *)
(* [0, GetSize()) reports an Error and accesses slot 0 instead; an array   *)
(* of size 0 has no storage at all, so that access is a write through a    *)
(* null pointer.                                                           *)
(***************************************************************************)
EXTENDS Integers, Sequences, FiniteSets, TLC

\* Largest number of entries of the backing container.
MaxN == 3
\* How many positions beyond a sentinel the client moves an iterator.
MaxOver == 2

\* The most steps one way before the iterator is taken back.
MaxTrip == 3

\* The most events a task is given.
MaxEvents == 2

\* The objects the container can hold, and the null pointer.
Objects == {"a", "b"}
NULL == "NULL"

VARIABLES
  container,     \* the AliEmcalContainer behind fkContainer
  view,          \* the AliEmcalIterableContainerT: fkContainer, fAcceptIndices, fUseAccepted
  build,         \* what BuildAcceptIndices did in the constructor
  iter,          \* the client's iterator: fkData, fCurrent, fForward
  visited,       \* what the traversal loops dereferenced: fwd and bwd
  call,          \* the last call made and what it returned
  pc,            \* where the client is
  other,         \* a second AliEmcalIterableContainerT
  iter2,         \* a second iterator
  clusterize,    \* the AliAnalysisTaskEMCALClusterize and what its last call did
  nuclei         \* the AliAnalysisTaskNucleiv2SP and what its last call did

vars == <<container, view, build, iter, visited, call, pc, other, iter2, clusterize, nuclei>>

\* The two analysis tasks.
tasks == <<clusterize, nuclei>>

\* The second view and the second iterator.
ext == <<other, iter2>>

----------------------------------------------------------------------------
(* The backing container.  Positions are 0-based as in the code; the       *)
(* sequences that hold them are 1-based.                                   *)

\* The address of the one container and of the one view.
ContPtr == "cont"
ThisPtr == "view"
OtherPtr == "other"

\* AliEmcalContainer::GetNEntries() through a pointer to the container.
GetNEntries(p) == container.nEntries

\* AliEmcalContainer::GetNAcceptEntries(): the number the container reports.
GetNAcceptEntries(p) == container.nAccept

\* AliEmcalContainer::AcceptObject(index, rejectionReason).
AcceptObject(p, index) == container.accept[index + 1]

\* AliEmcalContainer::operator[](index): the object, NULL outside the entries.
ContAt(p, index) ==
  IF index >= 0 /\ index < container.nEntries THEN container.objs[index + 1] ELSE NULL

\* The positions the container accepts, as a set.
AcceptedSet == {i \in 0..(container.nEntries - 1) : container.accept[i + 1]}

----------------------------------------------------------------------------
(* TArrayI as the view uses it.                                            *)

\* TArrayI::Set(n) on the empty array the constructor starts from.
ArrSet(n) == [i \in 1..n |-> 0]

\* TArrayI::GetSize().
ArrSize(arr) == Len(arr)

\* TArrayI::operator[](i) const: the slot, 0 (and an Error) outside the array.
ArrAt(arr, i) == IF i >= 0 /\ i < ArrSize(arr) THEN arr[i + 1] ELSE 0

----------------------------------------------------------------------------
(* BuildAcceptIndices.                                                     *)

\* What a write through the null pointer of an array without storage can
\* come to: the process dies, or it goes on and the write is lost.
NullWrites == {"fault", "lost"}

\* A write that makes room for the index when the array is full.
ArrWrite_Grows(st, acceptCounter, index, ub) ==
  IF acceptCounter < ArrSize(st.arr)
    THEN [st EXCEPT !.arr[acceptCounter + 1] = index]
    ELSE [st EXCEPT !.arr = Append(st.arr, index)]

\* fAcceptIndices[acceptCounter] = index, on the state st of the build.
ArrWrite(st, acceptCounter, index, ub) ==
  IF acceptCounter < ArrSize(st.arr)
    THEN [st EXCEPT !.arr[acceptCounter + 1] = index]
    ELSE IF ArrSize(st.arr) > 0
      THEN [st EXCEPT !.arr[1] = index, !.outOfBounds = TRUE]
      ELSE [st EXCEPT !.outOfBounds = TRUE, !.fault = (ub = "fault")]

\* The loop of BuildAcceptIndices from position index on.
RECURSIVE BuildLoop(_, _, _, _, _)
BuildLoop(p, index, acceptCounter, st, ub) ==
  IF index >= GetNEntries(p) \/ st.fault THEN st
  ELSE LET ev == [st EXCEPT !.evals = Append(st.evals, index)] IN
       IF AcceptObject(p, index)
         THEN BuildLoop(p, index + 1, acceptCounter + 1, ArrWrite(ev, acceptCounter, index, ub), ub)
         ELSE BuildLoop(p, index + 1, acceptCounter, ev, ub)

\* BuildAcceptIndices() with acceptCounter static: it goes on from where the
\* build of the first view left it.
BuildAcceptIndices_StaticCounter(p, ub) ==
  BuildLoop(p, 0, IF view.fUseAccepted THEN Len(SelectSeq(container.accept, LAMBDA a : a)) ELSE 0,
            [arr |-> ArrSet(GetNAcceptEntries(p)), outOfBounds |-> FALSE,
             fault |-> FALSE, evals |-> <<>>], ub)

\* BuildAcceptIndices() whose loop starts at index 1.
BuildAcceptIndices_SkipsFirst(p, ub) ==
  BuildLoop(p, 1, 0,
            [arr |-> ArrSet(GetNAcceptEntries(p)), outOfBounds |-> FALSE,
             fault |-> FALSE, evals |-> <<>>], ub)

\* BuildAcceptIndices(): the array, and what happened on the way.
BuildAcceptIndices(p, ub) ==
  BuildLoop(p, 0, 0,
            [arr |-> ArrSet(GetNAcceptEntries(p)), outOfBounds |-> FALSE,
             fault |-> FALSE, evals |-> <<>>], ub)

\* No build has run.
NoBuild == [arr |-> <<>>, outOfBounds |-> FALSE, fault |-> FALSE, evals |-> <<>>]

----------------------------------------------------------------------------
(* The view's member functions.                                            *)

\* The view a pointer refers to.
ViewAt(this) == IF this = OtherPtr THEN other ELSE view

\* GetEntries() without the test of the mode.
GetEntries_SizeOfArray(this) == ArrSize(ViewAt(this).fAcceptIndices)

\* GetEntries() that counts the accepted entries of the container anew.
GetEntries_Recounts(this) ==
  IF ViewAt(this).fUseAccepted
    THEN Len(SelectSeq(container.accept, LAMBDA a : a))
    ELSE GetNEntries(ViewAt(this).fkContainer)

\* GetEntries().
GetEntries(this) ==
  IF ViewAt(this).fUseAccepted
    THEN ArrSize(ViewAt(this).fAcceptIndices)
    ELSE GetNEntries(ViewAt(this).fkContainer)

\* operator[] that lets ALL mode skip the rejected entries.
OperatorIndex_AllChecksAccept(this, index) ==
  IF index < 0 \/ index >= GetEntries(this)
    THEN [obj |-> NULL, fetched |-> {}, mapped |-> {}]
    ELSE IF ViewAt(this).fUseAccepted
      THEN [obj |-> ContAt(ViewAt(this).fkContainer, ArrAt(ViewAt(this).fAcceptIndices, index)),
            fetched |-> {ArrAt(ViewAt(this).fAcceptIndices, index)},
            mapped |-> {index}]
      ELSE IF AcceptObject(ViewAt(this).fkContainer, index)
        THEN [obj |-> ContAt(ViewAt(this).fkContainer, index), fetched |-> {index}, mapped |-> {}]
        ELSE [obj |-> NULL, fetched |-> {}, mapped |-> {}]

\* operator[] with the upper bound tested by > in place of >=.
OperatorIndex_BoundInclusive(this, index) ==
  IF index < 0 \/ index > GetEntries(this)
    THEN [obj |-> NULL, fetched |-> {}, mapped |-> {}]
    ELSE IF ViewAt(this).fUseAccepted
      THEN [obj |-> ContAt(ViewAt(this).fkContainer, ArrAt(ViewAt(this).fAcceptIndices, index)),
            fetched |-> {ArrAt(ViewAt(this).fAcceptIndices, index)},
            mapped |-> {index}]
      ELSE [obj |-> ContAt(ViewAt(this).fkContainer, index),
            fetched |-> {index},
            mapped |-> {}]

\* operator[](index): the object returned, the container positions fetched
\* and the slots of the index map read.
OperatorIndex(this, index) ==
  IF index < 0 \/ index >= GetEntries(this)
    THEN [obj |-> NULL, fetched |-> {}, mapped |-> {}]
    ELSE IF ViewAt(this).fUseAccepted
      THEN [obj |-> ContAt(ViewAt(this).fkContainer, ArrAt(ViewAt(this).fAcceptIndices, index)),
            fetched |-> {ArrAt(ViewAt(this).fAcceptIndices, index)},
            mapped |-> {index}]
      ELSE [obj |-> ContAt(ViewAt(this).fkContainer, index),
            fetched |-> {index},
            mapped |-> {}]

\* end() made with the direction of rend().
end_Backward(this) == [fkData |-> this, fCurrent |-> GetEntries(this), fForward |-> FALSE]

\* rbegin() placed at GetEntries() in place of GetEntries()-1.
rbegin_AtCount(this) == [fkData |-> this, fCurrent |-> GetEntries(this), fForward |-> FALSE]

\* begin(), end(), rbegin(), rend().
begin(this) == [fkData |-> this, fCurrent |-> 0, fForward |-> TRUE]
end(this) == [fkData |-> this, fCurrent |-> GetEntries(this), fForward |-> TRUE]
rbegin(this) == [fkData |-> this, fCurrent |-> GetEntries(this) - 1, fForward |-> FALSE]
rend(this) == [fkData |-> this, fCurrent |-> -1, fForward |-> FALSE]

----------------------------------------------------------------------------
(* The iterator's member functions.                                        *)

\* operator!= that also tells iterators of different direction or view apart.
NotEqual_ComparesAll(it, ref) ==
  it.fCurrent # ref.fCurrent \/ it.fForward # ref.fForward \/ it.fkData # ref.fkData

\* operator!= written as the < of an index loop.
NotEqual_LessThan(it, ref) == it.fCurrent < ref.fCurrent

\* operator!=(ref).
NotEqual(it, ref) == it.fCurrent # ref.fCurrent

\* operator++ that forgets the direction.
PreInc_IgnoresDirection(it) == [it EXCEPT !.fCurrent = @ + 1]

\* operator++() (prefix).
PreInc(it) ==
  IF it.fForward THEN [it EXCEPT !.fCurrent = @ + 1] ELSE [it EXCEPT !.fCurrent = @ - 1]

\* operator--() that turns the iterator round and steps on.
PreDec_TurnsRound(it) ==
  [it EXCEPT !.fForward = ~it.fForward, !.fCurrent = IF it.fForward THEN @ - 1 ELSE @ + 1]

\* operator-- that forgets the direction.
PreDec_IgnoresDirection(it) == [it EXCEPT !.fCurrent = @ - 1]

\* operator--() (prefix).
PreDec(it) ==
  IF it.fForward THEN [it EXCEPT !.fCurrent = @ - 1] ELSE [it EXCEPT !.fCurrent = @ + 1]

\* operator* that stays on the last entry once the iterator is behind it.
Star_StopsAtLast(it) ==
  OperatorIndex(it.fkData,
                IF it.fCurrent >= GetEntries(it.fkData) THEN GetEntries(it.fkData) - 1
                ELSE it.fCurrent)

\* The iterator's copy constructor.
CopyIter(ref) == [fkData |-> ref.fkData, fCurrent |-> ref.fCurrent, fForward |-> ref.fForward]

\* operator++(int) that returns the iterator as it is after the increment.
PostInc_ReturnsAfter(it) == [tmp |-> CopyIter(PreInc(it)), self |-> PreInc(it)]

\* operator++(int) (postfix): the copy returned and the iterator afterwards.
PostInc(it) == [tmp |-> CopyIter(it), self |-> PreInc(it)]

\* operator--(int) (postfix): the copy returned and the iterator afterwards.
PostDec(it) == [tmp |-> CopyIter(it), self |-> PreDec(it)]

\* iterator::operator=(ref); same tells that ref is the iterator itself.
IteratorAssign(it, ref, same) ==
  IF ~same
    THEN [fkData |-> ref.fkData, fCurrent |-> ref.fCurrent, fForward |-> ref.fForward]
    ELSE it

\* operator*().
Star(it) == OperatorIndex(it.fkData, it.fCurrent)

\* No iterator exists.
NoIter == [fkData |-> NULL, fCurrent |-> 0, fForward |-> TRUE]

----------------------------------------------------------------------------
(* Initial states: a container of up to MaxN entries, no view yet.         *)

NoView == [fkContainer |-> NULL, fAcceptIndices |-> <<>>, fUseAccepted |-> FALSE]
NoCall == [op |-> "none", arg |-> 0, ret |-> NULL, fetched |-> {}, mapped |-> {}]
NoVisit == [fwd |-> <<>>, bwd |-> <<>>]

\* No analysis task has been made.
NoTask == [made |-> FALSE]

\* Nothing but the container exists.
Fresh ==
  /\ view = NoView
  /\ build = NoBuild
  /\ iter = NoIter
  /\ visited = NoVisit
  /\ call = NoCall
  /\ pc = "new"
  /\ other = NoView
  /\ iter2 = NoIter
  /\ clusterize = NoTask
  /\ nuclei = NoTask

Init ==
  /\ \E n \in 0..MaxN :
       \E acc \in [1..n -> BOOLEAN], objs \in [1..n -> Objects], hint \in 0..n :
         container = [nEntries |-> n, accept |-> acc, objs |-> objs, nAccept |-> hint]
  /\ Fresh

----------------------------------------------------------------------------
(* The client's steps.                                                     *)

\* A constructor that stores the number of indices it found in the container.
Construct_StoresCount(useAccept, ub) ==
  /\ pc = "new"
  /\ LET b == IF useAccept THEN BuildAcceptIndices(ContPtr, ub) ELSE NoBuild IN
       /\ build' = b
       /\ view' = [fkContainer |-> ContPtr, fAcceptIndices |-> b.arr, fUseAccepted |-> useAccept]
       /\ pc' = IF b.fault THEN "crashed" ELSE "ready"
       /\ container' = [container EXCEPT !.nAccept = Cardinality(AcceptedSet)]
  /\ call' = [NoCall EXCEPT !.op = "construct"]
  /\ UNCHANGED <<tasks, ext, iter, visited>>

\* AliEmcalIterableContainerT(cont, useAccept).
Construct(useAccept, ub) ==
  /\ pc = "new"
  /\ LET b == IF useAccept THEN BuildAcceptIndices(ContPtr, ub) ELSE NoBuild IN
       /\ build' = b
       /\ view' = [fkContainer |-> ContPtr, fAcceptIndices |-> b.arr, fUseAccepted |-> useAccept]
       /\ pc' = IF b.fault THEN "crashed" ELSE "ready"
  /\ call' = [NoCall EXCEPT !.op = "construct"]
  /\ UNCHANGED <<tasks, ext, container, iter, visited>>

\* A call of GetEntries().
CallGetEntries ==
  /\ pc = "ready"
  /\ call' = [NoCall EXCEPT !.op = "GetEntries", !.ret = GetEntries(ThisPtr)]
  /\ UNCHANGED <<tasks, ext, container, view, build, iter, visited, pc>>

\* A call of operator[](index).
CallIndex(index) ==
  /\ pc = "ready"
  /\ LET r == OperatorIndex(ThisPtr, index) IN
       call' = [op |-> "index", arg |-> index, ret |-> r.obj,
                fetched |-> r.fetched, mapped |-> r.mapped]
  /\ UNCHANGED <<tasks, ext, container, view, build, iter, visited, pc>>

\* A call of one of the four iterator factories.
CallFactory(which) ==
  /\ pc = "ready"
  /\ iter' = CASE which = "begin" -> begin(ThisPtr)
               [] which = "end" -> end(ThisPtr)
               [] which = "rbegin" -> rbegin(ThisPtr)
               [] which = "rend" -> rend(ThisPtr)
  /\ call' = [NoCall EXCEPT !.op = which]
  /\ pc' = "iter"
  /\ UNCHANGED <<tasks, ext, container, view, build, visited>>

\* The positions the client keeps its iterator in.
InReach(pos) == pos >= -1 - MaxOver /\ pos <= GetEntries(ThisPtr) + MaxOver

\* ++iter.
CallPreInc ==
  /\ pc = "iter"
  /\ InReach(PreInc(iter).fCurrent)
  /\ iter' = PreInc(iter)
  /\ call' = [NoCall EXCEPT !.op = "++"]
  /\ UNCHANGED <<tasks, ext, container, view, build, visited, pc>>

\* --iter.
CallPreDec ==
  /\ pc = "iter"
  /\ InReach(PreDec(iter).fCurrent)
  /\ iter' = PreDec(iter)
  /\ call' = [NoCall EXCEPT !.op = "--"]
  /\ UNCHANGED <<tasks, ext, container, view, build, visited, pc>>

\* *iter.
CallStar ==
  /\ pc = "iter"
  /\ LET r == Star(iter) IN
       call' = [op |-> "*", arg |-> iter.fCurrent, ret |-> r.obj,
                fetched |-> r.fetched, mapped |-> r.mapped]
  /\ UNCHANGED <<tasks, ext, container, view, build, iter, visited, pc>>

\* The iterator goes out of scope.
DropIter ==
  /\ pc = "iter"
  /\ iter' = NoIter
  /\ call' = NoCall
  /\ pc' = "ready"
  /\ UNCHANGED <<tasks, ext, container, view, build, visited>>

\* for(iter = begin(); iter != end(); ++iter): the initialisation.
ForwardStart ==
  /\ pc = "ready"
  /\ iter' = begin(ThisPtr)
  /\ visited' = NoVisit
  /\ call' = [NoCall EXCEPT !.op = "for"]
  /\ pc' = "forward"
  /\ UNCHANGED <<tasks, ext, container, view, build>>

\* One test of iter != end(); the body and ++iter when it holds, else on to
\* for(iter = rbegin(); iter != rend(); ++iter).
ForwardStep ==
  /\ pc = "forward"
  /\ IF NotEqual(iter, end(ThisPtr))
       THEN /\ visited' = [visited EXCEPT !.fwd = Append(@, [pos |-> iter.fCurrent, obj |-> Star(iter).obj])]
            /\ iter' = PreInc(iter)
            /\ pc' = pc
       ELSE /\ iter' = rbegin(ThisPtr)
            /\ pc' = "backward"
            /\ visited' = visited
  /\ call' = [NoCall EXCEPT !.op = "for"]
  /\ UNCHANGED <<tasks, ext, container, view, build>>

\* One test of iter != rend(); the body and ++iter when it holds.
BackwardStep ==
  /\ pc = "backward"
  /\ IF NotEqual(iter, rend(ThisPtr))
       THEN /\ visited' = [visited EXCEPT !.bwd = Append(@, [pos |-> iter.fCurrent, obj |-> Star(iter).obj])]
            /\ iter' = PreInc(iter)
            /\ pc' = pc
       ELSE /\ iter' = NoIter
            /\ pc' = "traversed"
            /\ visited' = visited
  /\ call' = [NoCall EXCEPT !.op = "for"]
  /\ UNCHANGED <<tasks, ext, container, view, build>>

\* The client is done with what the loops collected.
TraversalEnd ==
  /\ pc = "traversed"
  /\ visited' = NoVisit
  /\ call' = NoCall
  /\ pc' = "ready"
  /\ UNCHANGED <<tasks, ext, container, view, build, iter>>

Indices == (-1 - MaxOver)..(MaxN + MaxOver)

Next ==
  \/ \E useAccept \in BOOLEAN, ub \in NullWrites : Construct(useAccept, ub)
  \/ CallGetEntries
  \/ \E index \in Indices : CallIndex(index)
  \/ \E which \in {"begin", "end", "rbegin", "rend"} : CallFactory(which)
  \/ CallPreInc
  \/ CallPreDec
  \/ CallStar
  \/ DropIter
  \/ ForwardStart
  \/ ForwardStep
  \/ BackwardStep
  \/ TraversalEnd

Spec == Init /\ [][Next]_vars

\* The loops run on once started: the client is sequential code.
FairSpec == Spec /\ WF_vars(ForwardStep) /\ WF_vars(BackwardStep)

----------------------------------------------------------------------------
(* Two views on the one container: construction of the second, copy        *)
(* construction, assignment, and calls on either.                          *)

\* The copy constructor: the members of ref, the array duplicated.
CopyView(ref) ==
  [fkContainer |-> ref.fkContainer, fAcceptIndices |-> ref.fAcceptIndices,
   fUseAccepted |-> ref.fUseAccepted]

\* operator= that leaves fUseAccepted as it was.
OperatorAssign_KeepsMode(this, thisView, ref, refView) ==
  IF this # ref
    THEN [fkContainer |-> refView.fkContainer, fAcceptIndices |-> refView.fAcceptIndices,
          fUseAccepted |-> thisView.fUseAccepted]
    ELSE thisView

\* operator=(ref) on the view at address this: its members afterwards.
OperatorAssign(this, thisView, ref, refView) ==
  IF this # ref
    THEN [fkContainer |-> refView.fkContainer, fAcceptIndices |-> refView.fAcceptIndices,
          fUseAccepted |-> refView.fUseAccepted]
    ELSE thisView

\* The address of a temporary.
TempPtr == "temp"

\* AliEmcalIterableContainerT other(cont, useAccept).
ConstructOther(useAccept, ub) ==
  /\ pc = "ready"
  /\ other = NoView
  /\ LET b == IF useAccept THEN BuildAcceptIndices(ContPtr, ub) ELSE NoBuild IN
       /\ other' = [fkContainer |-> ContPtr, fAcceptIndices |-> b.arr, fUseAccepted |-> useAccept]
       /\ pc' = IF b.fault THEN "crashed" ELSE pc
  /\ call' = [NoCall EXCEPT !.op = "construct other"]
  /\ UNCHANGED <<tasks, container, view, build, iter, visited, iter2>>

\* AliEmcalIterableContainerT other(view).
CopyConstruct ==
  /\ pc = "ready"
  /\ other = NoView
  /\ other' = CopyView(view)
  /\ call' = [NoCall EXCEPT !.op = "copy"]
  /\ UNCHANGED <<tasks, container, view, build, iter, visited, pc, iter2>>

\* other = view.
AssignOther ==
  /\ pc = "ready"
  /\ other # NoView
  /\ other' = OperatorAssign(OtherPtr, other, ThisPtr, view)
  /\ call' = [NoCall EXCEPT !.op = "other=view"]
  /\ UNCHANGED <<tasks, container, view, build, iter, visited, pc, iter2>>

\* view = other.
AssignView ==
  /\ pc = "ready"
  /\ other # NoView
  /\ view' = OperatorAssign(ThisPtr, view, OtherPtr, other)
  /\ call' = [NoCall EXCEPT !.op = "view=other"]
  /\ UNCHANGED <<tasks, container, other, build, iter, visited, pc, iter2>>

\* view = view.
AssignSelf ==
  /\ pc = "ready"
  /\ other # NoView
  /\ view' = OperatorAssign(ThisPtr, view, ThisPtr, view)
  /\ call' = [NoCall EXCEPT !.op = "view=view"]
  /\ UNCHANGED <<tasks, container, other, build, iter, visited, pc, iter2>>

\* view = AliEmcalIterableContainerT(cont, useAccept).
AssignTemp(useAccept, ub) ==
  /\ pc = "ready"
  /\ other # NoView
  /\ LET b == IF useAccept THEN BuildAcceptIndices(ContPtr, ub) ELSE NoBuild
         temp == [fkContainer |-> ContPtr, fAcceptIndices |-> b.arr, fUseAccepted |-> useAccept] IN
       /\ view' = IF b.fault THEN view ELSE OperatorAssign(ThisPtr, view, TempPtr, temp)
       /\ build' = IF b.fault THEN build ELSE b
       /\ pc' = IF b.fault THEN "crashed" ELSE pc
  /\ call' = [NoCall EXCEPT !.op = "view=temp"]
  /\ UNCHANGED <<tasks, container, other, iter, visited, iter2>>

\* other.GetEntries().
CallGetEntries2 ==
  /\ pc = "ready"
  /\ other # NoView
  /\ call' = [NoCall EXCEPT !.op = "other.GetEntries", !.ret = GetEntries(OtherPtr)]
  /\ UNCHANGED <<tasks, ext, container, view, build, iter, visited, pc>>

\* other[index].
CallIndex2(index) ==
  /\ pc = "ready"
  /\ other # NoView
  /\ LET r == OperatorIndex(OtherPtr, index) IN
       call' = [op |-> "other.index", arg |-> index, ret |-> r.obj,
                fetched |-> r.fetched, mapped |-> r.mapped]
  /\ UNCHANGED <<tasks, ext, container, view, build, iter, visited, pc>>

PairNext ==
  \/ \E useAccept \in BOOLEAN, ub \in NullWrites : Construct(useAccept, ub)
  \/ \E useAccept \in BOOLEAN, ub \in NullWrites : ConstructOther(useAccept, ub)
  \/ CopyConstruct
  \/ AssignOther
  \/ AssignView
  \/ AssignSelf
  \/ \E useAccept \in BOOLEAN, ub \in NullWrites : AssignTemp(useAccept, ub)
  \/ CallGetEntries
  \/ \E index \in Indices : CallIndex(index)
  \/ CallGetEntries2
  \/ \E index \in Indices : CallIndex2(index)

\* Neighbouring entries are different objects; the count reported is any.
PairInit ==
  /\ \E n \in 0..MaxN :
       \E acc \in [1..n -> BOOLEAN], hint \in 0..n :
         container = [nEntries |-> n, accept |-> acc,
                      objs |-> [i \in 1..n |-> IF i % 2 = 1 THEN "a" ELSE "b"],
                      nAccept |-> hint]
  /\ Fresh

PairSpec == PairInit /\ [][PairNext]_vars

----------------------------------------------------------------------------
(* The owner of the container changes it while the view is in use.         *)

\* The owner's cuts now decide the other way on the entry at position index.
OwnerFlipsAccept(index) ==
  /\ pc = "ready"
  /\ index < container.nEntries
  /\ container' = [container EXCEPT !.accept[index + 1] = ~@]
  /\ call' = [NoCall EXCEPT !.op = "owner"]
  /\ UNCHANGED <<tasks, ext, view, build, iter, visited, pc>>

StaleNext ==
  \/ \E useAccept \in BOOLEAN, ub \in NullWrites : Construct(useAccept, ub)
  \/ \E index \in 0..(MaxN - 1) : OwnerFlipsAccept(index)
  \/ CallGetEntries
  \/ \E index \in Indices : CallIndex(index)
  \/ \E which \in {"begin", "end", "rbegin", "rend"} : CallFactory(which)
  \/ CallStar
  \/ DropIter
  \/ ForwardStart
  \/ ForwardStep
  \/ BackwardStep
  \/ TraversalEnd

StaleSpec == Init /\ [][StaleNext]_vars

----------------------------------------------------------------------------
(* Two iterators: the second is made by a factory of either view or is the *)
(* copy a postfix operator returns.                                        *)

\* iter2 = begin(), end(), rbegin() or rend() of the view at ptr.
CallFactory2(which, ptr) ==
  /\ pc = "iter"
  /\ ptr = OtherPtr => other # NoView
  /\ iter2' = CASE which = "begin" -> begin(ptr)
                [] which = "end" -> end(ptr)
                [] which = "rbegin" -> rbegin(ptr)
                [] which = "rend" -> rend(ptr)
  /\ call' = [NoCall EXCEPT !.op = "iter2"]
  /\ UNCHANGED <<tasks, container, view, build, iter, visited, pc, other>>

\* iter2 = iter++.
CallPostInc ==
  /\ pc = "iter"
  /\ InReach(PostInc(iter).self.fCurrent)
  /\ iter2' = PostInc(iter).tmp
  /\ iter' = PostInc(iter).self
  /\ call' = [NoCall EXCEPT !.op = "++(int)"]
  /\ UNCHANGED <<tasks, container, view, build, visited, pc, other>>

\* iter2 = iter--.
CallPostDec ==
  /\ pc = "iter"
  /\ InReach(PostDec(iter).self.fCurrent)
  /\ iter2' = PostDec(iter).tmp
  /\ iter' = PostDec(iter).self
  /\ call' = [NoCall EXCEPT !.op = "--(int)"]
  /\ UNCHANGED <<tasks, container, view, build, visited, pc, other>>

\* iter != iter2.
CallNotEqual ==
  /\ pc = "iter"
  /\ iter2 # NoIter
  /\ call' = [NoCall EXCEPT !.op = "!=", !.ret = NotEqual(iter, iter2)]
  /\ UNCHANGED <<tasks, ext, container, view, build, iter, visited, pc>>

\* Both iterators go out of scope.
DropIters ==
  /\ pc = "iter"
  /\ iter' = NoIter
  /\ iter2' = NoIter
  /\ call' = NoCall
  /\ pc' = "ready"
  /\ UNCHANGED <<tasks, container, view, build, visited, other>>

IterNext ==
  \/ \E useAccept \in BOOLEAN, ub \in NullWrites : Construct(useAccept, ub)
  \/ \E useAccept \in BOOLEAN, ub \in NullWrites : ConstructOther(useAccept, ub)
  \/ \E which \in {"begin", "end", "rbegin", "rend"} : CallFactory(which)
  \/ \E which \in {"begin", "end", "rbegin", "rend"}, ptr \in {ThisPtr, OtherPtr} :
       CallFactory2(which, ptr)
  \/ CallPreInc
  \/ CallPreDec
  \/ CallPostInc
  \/ CallPostDec
  \/ CallNotEqual
  \/ DropIters

\* The iterators never read the objects, and the owner's count is exact.
IterInit ==
  /\ \E n \in 0..MaxN :
       \E acc \in [1..n -> BOOLEAN] :
         container = [nEntries |-> n, accept |-> acc, objs |-> [i \in 1..n |-> "a"],
                      nAccept |-> Len(SelectSeq(acc, LAMBDA a : a))]
  /\ Fresh

IterSpec == IterInit /\ [][IterNext]_vars

----------------------------------------------------------------------------
(* Assignment of iterators and of views next to the other operations.      *)

\* iter = iter2.
CallIterAssign ==
  /\ pc = "iter"
  /\ iter2 # NoIter
  /\ InReach(iter2.fCurrent)
  /\ iter' = IteratorAssign(iter, iter2, FALSE)
  /\ call' = [NoCall EXCEPT !.op = "iter=iter2"]
  /\ UNCHANGED <<tasks, ext, container, view, build, visited, pc>>

\* iter = iter.
CallIterAssignSelf ==
  /\ pc = "iter"
  /\ iter' = IteratorAssign(iter, iter, TRUE)
  /\ call' = [NoCall EXCEPT !.op = "iter=iter"]
  /\ UNCHANGED <<tasks, ext, container, view, build, visited, pc>>

AssignNext ==
  \/ IterNext
  \/ CallStar
  \/ CallIterAssign
  \/ CallIterAssignSelf
  \/ AssignView
  \/ AssignSelf

\* Every other entry is accepted and the owner's count is exact.
AssignInit ==
  /\ \E n \in 0..MaxN :
       container = [nEntries |-> n, accept |-> [i \in 1..n |-> i % 2 = 1],
                    objs |-> [i \in 1..n |-> IF i % 2 = 1 THEN "a" ELSE "b"],
                    nAccept |-> (n + 1) \div 2]
  /\ Fresh

AssignSpec == AssignInit /\ [][AssignNext]_vars

----------------------------------------------------------------------------
(* There and back: from wherever the iterator stands, some ++ followed by  *)
(* as many --, or some -- followed by as many ++.  iter2 keeps a copy of   *)
(* the iterator as it set out, call.arg the steps it is away.              *)

\* The client copies the iterator and sets out, by ++ ("adv") or -- ("ret").
TripStart(first) ==
  /\ pc = "iter"
  /\ iter2' = CopyIter(iter)
  /\ call' = [NoCall EXCEPT !.op = first, !.arg = 0]
  /\ pc' = "trip"
  /\ UNCHANGED <<tasks, container, view, build, iter, visited, other>>

\* One more step out.
TripOut ==
  /\ pc = "trip"
  /\ call.op \in {"adv", "ret"}
  /\ call.arg < MaxTrip
  /\ iter' = IF call.op = "adv" THEN PreInc(iter) ELSE PreDec(iter)
  /\ call' = [call EXCEPT !.arg = @ + 1]
  /\ UNCHANGED <<tasks, ext, container, view, build, visited, pc>>

\* The client turns.
TripTurn ==
  /\ pc = "trip"
  /\ call.op \in {"adv", "ret"}
  /\ call.arg >= 1
  /\ call' = [call EXCEPT !.op = IF call.op = "adv" THEN "adv back" ELSE "ret back"]
  /\ UNCHANGED <<tasks, ext, container, view, build, iter, visited, pc>>

\* One step back: -- after ++, ++ after --.
TripBack ==
  /\ pc = "trip"
  /\ call.op \in {"adv back", "ret back"}
  /\ call.arg > 0
  /\ iter' = IF call.op = "adv back" THEN PreDec(iter) ELSE PreInc(iter)
  /\ call' = [call EXCEPT !.arg = @ - 1]
  /\ UNCHANGED <<tasks, ext, container, view, build, visited, pc>>

\* Back after as many steps as out; the copy is dropped.
TripEnd ==
  /\ pc = "trip"
  /\ call.op \in {"adv back", "ret back"}
  /\ call.arg = 0
  /\ iter2' = NoIter
  /\ call' = NoCall
  /\ pc' = "iter"
  /\ UNCHANGED <<tasks, container, view, build, iter, visited, other>>

TripNext ==
  \/ \E useAccept \in BOOLEAN, ub \in NullWrites : Construct(useAccept, ub)
  \/ \E which \in {"begin", "end", "rbegin", "rend"} : CallFactory(which)
  \/ CallPreInc
  \/ CallPreDec
  \/ DropIter
  \/ \E first \in {"adv", "ret"} : TripStart(first)
  \/ TripOut
  \/ TripTurn
  \/ TripBack
  \/ TripEnd

TripSpec == IterInit /\ [][TripNext]_vars

----------------------------------------------------------------------------
(* The owner adds entries to the container and removes them while the view *)
(* is in use.                                                              *)

\* The owner appends an entry, an object other than the last one; the
\* container may grow one past MaxN.
OwnerAppends(acc) ==
  /\ pc = "ready"
  /\ container.nEntries <= MaxN
  /\ container' = [container EXCEPT !.nEntries = @ + 1,
                                    !.accept = Append(@, acc),
                                    !.objs = Append(@, IF Len(@) % 2 = 0 THEN "a" ELSE "b")]
  /\ call' = [NoCall EXCEPT !.op = "owner"]
  /\ UNCHANGED <<tasks, ext, view, build, iter, visited, pc>>

\* The owner removes the last entry.
OwnerRemovesLast ==
  /\ pc = "ready"
  /\ container.nEntries >= 1
  /\ container' = [container EXCEPT !.nEntries = @ - 1,
                                    !.accept = SubSeq(@, 1, Len(@) - 1),
                                    !.objs = SubSeq(@, 1, Len(@) - 1)]
  /\ call' = [NoCall EXCEPT !.op = "owner"]
  /\ UNCHANGED <<tasks, ext, view, build, iter, visited, pc>>

ResizeNext ==
  \/ \E useAccept \in BOOLEAN, ub \in NullWrites : Construct(useAccept, ub)
  \/ \E acc \in BOOLEAN : OwnerAppends(acc)
  \/ OwnerRemovesLast
  \/ CallGetEntries
  \/ \E index \in Indices : CallIndex(index)
  \/ \E which \in {"begin", "end", "rbegin", "rend"} : CallFactory(which)
  \/ DropIter

ResizeSpec == PairInit /\ [][ResizeNext]_vars

----------------------------------------------------------------------------
(* Two loops over one view at once: for(iter = begin(); iter != end();     *)
(* ++iter) and for(iter2 = end(); iter2 != begin(); ) { --iter2; ... },    *)
(* their steps taken in any order.                                         *)

\* Both loops are set up.
LoopsStart ==
  /\ pc = "ready"
  /\ iter' = begin(ThisPtr)
  /\ iter2' = end(ThisPtr)
  /\ visited' = NoVisit
  /\ call' = [NoCall EXCEPT !.op = "loops"]
  /\ pc' = "loops"
  /\ UNCHANGED <<tasks, container, view, build, other>>

\* A step of the first loop with iterators that share one position.
LoopStepInc_SharedPosition ==
  /\ pc = "loops"
  /\ NotEqual(iter, end(ThisPtr))
  /\ visited' = [visited EXCEPT !.fwd = Append(@, [pos |-> iter.fCurrent, obj |-> Star(iter).obj])]
  /\ iter' = PreInc(iter)
  /\ iter2' = [iter2 EXCEPT !.fCurrent = PreInc(iter).fCurrent]
  /\ call' = [NoCall EXCEPT !.op = "loop ++"]
  /\ UNCHANGED <<tasks, container, view, build, pc, other>>

\* The first loop passes iter != end(), visits *iter and does ++iter.
LoopStepInc ==
  /\ pc = "loops"
  /\ NotEqual(iter, end(ThisPtr))
  /\ visited' = [visited EXCEPT !.fwd = Append(@, [pos |-> iter.fCurrent, obj |-> Star(iter).obj])]
  /\ iter' = PreInc(iter)
  /\ call' = [NoCall EXCEPT !.op = "loop ++"]
  /\ UNCHANGED <<tasks, ext, container, view, build, pc>>

\* The second loop passes iter2 != begin(), does --iter2 and visits *iter2.
LoopStepDec ==
  /\ pc = "loops"
  /\ NotEqual(iter2, begin(ThisPtr))
  /\ iter2' = PreDec(iter2)
  /\ visited' = [visited EXCEPT !.bwd = Append(@, [pos |-> PreDec(iter2).fCurrent,
                                                  obj |-> Star(PreDec(iter2)).obj])]
  /\ call' = [NoCall EXCEPT !.op = "loop --"]
  /\ UNCHANGED <<tasks, container, view, build, iter, pc, other>>

\* Both loops have failed their tests.
LoopsEnd ==
  /\ pc = "loops"
  /\ ~NotEqual(iter, end(ThisPtr))
  /\ ~NotEqual(iter2, begin(ThisPtr))
  /\ call' = [NoCall EXCEPT !.op = "loops"]
  /\ pc' = "looped"
  /\ UNCHANGED <<tasks, ext, container, view, build, iter, visited>>

\* The client is done with what the two loops collected.
LoopsDrop ==
  /\ pc = "looped"
  /\ iter' = NoIter
  /\ iter2' = NoIter
  /\ visited' = NoVisit
  /\ call' = NoCall
  /\ pc' = "ready"
  /\ UNCHANGED <<tasks, container, view, build, other>>

LoopsNext ==
  \/ \E useAccept \in BOOLEAN, ub \in NullWrites : Construct(useAccept, ub)
  \/ LoopsStart
  \/ LoopStepInc
  \/ LoopStepDec
  \/ LoopsEnd
  \/ LoopsDrop

LoopsSpec == Init /\ [][LoopsNext]_vars

----------------------------------------------------------------------------
(* The default-constructed view: fkContainer is NULL and fUseAccepted is   *)
(* false, so GetEntries() calls GetNEntries() through a null pointer.      *)

\* What a call through a null pointer can come to: the process dies, or the
\* call returns something indeterminate.
NullReads == {"fault", "garbage"}

\* GetEntries() on this view goes through a null fkContainer.
ReadsNull(this) == ~ViewAt(this).fUseAccepted /\ ViewAt(this).fkContainer = NULL

\* AliEmcalIterableContainerT().
DefaultConstruct ==
  /\ pc = "new"
  /\ view' = [fkContainer |-> NULL, fAcceptIndices |-> <<>>, fUseAccepted |-> FALSE]
  /\ call' = [NoCall EXCEPT !.op = "construct"]
  /\ pc' = "default"
  /\ UNCHANGED <<tasks, ext, container, build, iter, visited>>

\* GetEntries() on the default-constructed view.
DefaultGetEntries(ub) ==
  /\ pc = "default"
  /\ ReadsNull(ThisPtr)
  /\ call' = [NoCall EXCEPT !.op = "GetEntries", !.ret = ub]
  /\ pc' = IF ub = "fault" THEN "crashed" ELSE pc
  /\ UNCHANGED <<tasks, ext, container, view, build, iter, visited>>

\* operator[](index) on the default-constructed view: index < 0 returns NULL
\* before GetEntries() is called.
DefaultIndex(index, ub) ==
  /\ pc = "default"
  /\ ReadsNull(ThisPtr)
  /\ call' = [NoCall EXCEPT !.op = "index", !.arg = index,
                            !.ret = IF index < 0 THEN NULL ELSE ub]
  /\ pc' = IF index >= 0 /\ ub = "fault" THEN "crashed" ELSE pc
  /\ UNCHANGED <<tasks, ext, container, view, build, iter, visited>>

\* The factories on the default-constructed view: end() and rbegin() call
\* GetEntries(), begin() and rend() do not.
DefaultFactory(which, ub) ==
  /\ pc = "default"
  /\ ReadsNull(ThisPtr)
  /\ call' = [NoCall EXCEPT !.op = which,
                            !.ret = IF which \in {"end", "rbegin"} THEN ub ELSE NULL]
  /\ iter' = CASE which = "begin" -> begin(ThisPtr)
               [] which = "rend" -> rend(ThisPtr)
               [] OTHER -> iter
  /\ pc' = IF which \in {"end", "rbegin"} /\ ub = "fault" THEN "crashed" ELSE pc
  /\ UNCHANGED <<tasks, ext, container, view, build, visited>>

DefaultNext ==
  \/ DefaultConstruct
  \/ \E ub \in NullReads : DefaultGetEntries(ub)
  \/ \E index \in Indices, ub \in NullReads : DefaultIndex(index, ub)
  \/ \E which \in {"begin", "end", "rbegin", "rend"}, ub \in NullReads : DefaultFactory(which, ub)

DefaultSpec == Init /\ [][DefaultNext]_vars

----------------------------------------------------------------------------
(* AliAnalysisTaskEMCALClusterize.  The record clusterize holds the data   *)
(* members the task's control flow reads or writes, what the steering      *)
(* macro set before the first event (fJustUnfold, fLoadGeomMatrices,       *)
(* fGeomMatrix, the clusterizer flag of fRecParam), the two globals        *)
(* gGeoManager and the debug level, and a record of the last call.         *)

\* The run numbers of the events and the super modules of the geometry.
Runs == {1, 2}
Modules == {0, 1}

\* The views, iterators and container of the first part are not in use.
ViewsIdle ==
  /\ container = [nEntries |-> 0, accept |-> <<>>, objs |-> <<>>, nAccept |-> 0]
  /\ view = NoView
  /\ build = NoBuild
  /\ iter = NoIter
  /\ visited = NoVisit
  /\ call = NoCall
  /\ pc = "new"
  /\ other = NoView
  /\ iter2 = NoIter

\* InputEvent() returned no event.
NoEvent == [kind |-> "NULL", run |-> 0, items |-> <<>>, matrices |-> {}]

\* The clusters (when unfolding) or rec points (when reclustering) of an
\* event: TRUE for an EMCAL cluster, or a rec point with a cell above the
\* ratio cut.
ItemLists == {<<>>, <<TRUE>>, <<FALSE, TRUE>>, <<TRUE, TRUE>>}

\* The events InputEvent() can return: none, an ESD event with or without
\* its alignment matrices, an AOD event, an event of another class.
Events ==
  {NoEvent}
    \cup {[kind |-> "ESD", run |-> r, items |-> it, matrices |-> ms] :
            r \in Runs, it \in ItemLists, ms \in {{}, Modules}}
    \cup {[kind |-> k, run |-> r, items |-> it, matrices |-> {}] :
            k \in {"AOD", "other"}, r \in Runs, it \in ItemLists}

\* What the constructor and the steering macro leave: no run seen, no
\* matrices set, the three arrays empty, no clusterizer and no unfolder.
CtorClusterize(justUnfold, loadMatrices, geomMatrix, flag, geoManager, debug) ==
  [made |-> TRUE,
   fJustUnfold |-> justUnfold, fLoadGeomMatrices |-> loadMatrices,
   fGeomMatrix |-> geomMatrix, clusterizerFlag |-> flag,
   gGeoManager |-> geoManager, debug |-> debug,
   fRun |-> -1, fGeomMatrixSet |-> FALSE,
   fCalibData |-> FALSE, fPedestalData |-> FALSE, cdbRun |-> -1,
   fClusterizer |-> NULL, fUnfolder |-> NULL, inits |-> 0,
   fCaloClusterArr |-> <<>>, fOutputAODBranch |-> <<>>,
   events |-> 0, execs |-> 0, ev |-> NoEvent, result |-> "none",
   misal |-> {}, produced |-> <<>>]

\* InitClusterization(): the task afterwards; result "fatal" after AliFatal.
InitClusterization(t) ==
  IF t.fJustUnfold
    THEN [t EXCEPT !.fUnfolder = "AliEMCALAfterBurnerUF", !.inits = @ + 1]
    ELSE IF t.clusterizerFlag = "below"
      THEN [t EXCEPT !.fClusterizer = NULL, !.inits = @ + 1, !.result = "fatal"]
      ELSE [t EXCEPT !.fClusterizer = CASE t.clusterizerFlag = "v1" -> "AliEMCALClusterizerv1"
                                        [] t.clusterizerFlag = "NxN" -> "AliEMCALClusterizerNxN"
                                        [] OTHER -> "AliEMCALClusterizerNxN 2x2",
                     !.inits = @ + 1]

\* AccessOCDB() that forgets to store the run number.
AccessOCDB_RunNotStored(t, event, ocdb) ==
  IF event = NoEvent THEN [t EXCEPT !.result = "false"]
  ELSE IF event.run = t.fRun THEN [t EXCEPT !.result = "true"]
  ELSE LET calib == [t EXCEPT !.cdbRun = event.run,
                              !.fCalibData = @ \/ "calib" \in ocdb]
           peds == [calib EXCEPT !.fPedestalData = @ \/ "pedestals" \in ocdb]
           init == InitClusterization(peds) IN
       IF ~calib.fCalibData THEN [calib EXCEPT !.result = "fatal"]
       ELSE IF ~peds.fPedestalData THEN [peds EXCEPT !.result = "fatal"]
       ELSE IF init.result = "fatal" THEN init
       ELSE [init EXCEPT !.result = "true"]

\* AccessOCDB() for the event InputEvent() returns, with the entries ocdb
\* that the OCDB has: the task afterwards, result "true" or "false" for the
\* value returned and "fatal" after AliFatal.
AccessOCDB(t, event, ocdb) ==
  IF event = NoEvent THEN [t EXCEPT !.result = "false"]
  ELSE IF event.run = t.fRun THEN [t EXCEPT !.result = "true"]
  ELSE LET calib == [t EXCEPT !.fRun = event.run, !.cdbRun = event.run,
                              !.fCalibData = @ \/ "calib" \in ocdb]
           peds == [calib EXCEPT !.fPedestalData = @ \/ "pedestals" \in ocdb]
           init == InitClusterization(peds) IN
       IF ~calib.fCalibData THEN [calib EXCEPT !.result = "fatal"]
       ELSE IF ~peds.fPedestalData THEN [peds EXCEPT !.result = "fatal"]
       ELSE IF init.result = "fatal" THEN init
       ELSE [init EXCEPT !.result = "true"]

\* The geometry block of UserExec that leaves fGeomMatrixSet as it is after
\* taking the matrices from the ESD.
GeomStep_FlagNotSet(t, event, ub) ==
  IF t.fGeomMatrixSet THEN t
  ELSE IF t.fLoadGeomMatrices
    THEN [t EXCEPT !.misal = t.fGeomMatrix, !.fGeomMatrixSet = TRUE]
  ELSE IF t.gGeoManager THEN t
  ELSE IF event.kind = "AOD" THEN t
  ELSE IF event.kind # "ESD" THEN [t EXCEPT !.result = "no esd"]
  ELSE IF t.debug /\ event.matrices # Modules /\ ub = "fault"
    THEN [t EXCEPT !.result = "fault"]
  ELSE [t EXCEPT !.misal = event.matrices]

\* The geometry block of UserExec: the task afterwards, misal the super
\* modules SetMisalMatrix() was called for, result "no esd" for the early
\* return and "fault" when Print() through a null matrix pointer kills the
\* process (ub tells what that call comes to).
GeomStep(t, event, ub) ==
  IF t.fGeomMatrixSet THEN t
  ELSE IF t.fLoadGeomMatrices
    THEN [t EXCEPT !.misal = t.fGeomMatrix, !.fGeomMatrixSet = TRUE]
  ELSE IF t.gGeoManager THEN t
  ELSE IF event.kind = "AOD" THEN t
  ELSE IF event.kind # "ESD" THEN [t EXCEPT !.result = "no esd"]
  ELSE IF t.debug /\ event.matrices # Modules /\ ub = "fault"
    THEN [t EXCEPT !.result = "fault"]
  ELSE [t EXCEPT !.misal = event.matrices, !.fGeomMatrixSet = TRUE]

\* What the use of an AliESDCaloCluster through an AliAODCaloCluster pointer
\* can come to: the process dies, or a cluster of no meaning is copied.
BadCasts == {"fault", "garbage"}

\* The clusters UserExec puts into fCaloClusterArr: when unfolding, copies
\* of the event's EMCAL clusters, of the event's cluster class; when
\* reclustering, an AliAODCaloCluster for each rec point with cells.
RECURSIVE FillClusters(_, _, _)
FillClusters(t, event, i) ==
  IF i > Len(event.items) THEN <<>>
  ELSE LET rest == FillClusters(t, event, i + 1)
           type == IF t.fJustUnfold THEN event.kind ELSE "AOD" IN
       IF event.items[i] /\ type \in {"ESD", "AOD"}
         THEN <<[evt |-> t.events, src |-> i - 1, type |-> type]>> \o rest
         ELSE rest

\* The loop that copies fCaloClusterArr into fOutputAODBranch from slot i
\* on: the branch, or "fault" when the process died.
RECURSIVE CopyClusters(_, _, _)
CopyClusters(arr, i, cast) ==
  IF i >= Len(arr) THEN <<>>
  ELSE LET rest == CopyClusters(arr, i + 1, cast)
           newCluster == arr[i + 1] IN
       IF newCluster.type = "AOD"
         THEN IF rest = "fault" THEN "fault"
              ELSE <<[evt |-> newCluster.evt, src |-> newCluster.src, type |-> "AOD", id |-> i]>> \o rest
         ELSE IF cast = "fault" \/ rest = "fault" THEN "fault"
              ELSE <<[evt |-> -1, src |-> -1, type |-> "garbage", id |-> i]>> \o rest

\* UserExec() for the event InputEvent() returns: the task afterwards.
UserExec(t, event, ocdb, ub, cast) ==
  LET start == [t EXCEPT !.fOutputAODBranch = <<>>, !.events = @ + 1, !.ev = event,
                         !.misal = {}, !.produced = <<>>, !.result = "none"]
      ocdbDone == AccessOCDB([start EXCEPT !.execs = @ + 1], event, ocdb)
      geom == GeomStep([ocdbDone EXCEPT !.result = "none"], event, ub)
      filled == [geom EXCEPT !.fCaloClusterArr = @ \o FillClusters(geom, event, 1)]
      branch == CopyClusters(filled.fCaloClusterArr, 0, cast) IN
  IF event = NoEvent THEN [start EXCEPT !.result = "no event"]
  ELSE IF ocdbDone.result = "fatal" THEN ocdbDone
  ELSE IF geom.result \in {"no esd", "fault"} THEN geom
  ELSE IF branch = "fault"
    THEN [filled EXCEPT !.produced = filled.fCaloClusterArr, !.result = "fault"]
  ELSE [filled EXCEPT !.produced = filled.fCaloClusterArr, !.fOutputAODBranch = branch,
                      !.fCaloClusterArr = <<>>, !.result = "done"]

\* The OCDB has both entries, or lacks one.
Ocdbs == {{"calib", "pedestals"}, {"pedestals"}, {"calib"}}

\* The process has not died in AliFatal or in a fault.
ClusterizeAlive == clusterize.result \notin {"fatal", "fault"}

\* The framework calls UserExec() for the next event.
ClusterizeUserExec(event, ocdb, ub, cast) ==
  /\ ClusterizeAlive
  /\ clusterize.events < MaxEvents
  /\ clusterize' = UserExec(clusterize, event, ocdb, ub, cast)
  /\ UNCHANGED <<container, view, build, iter, visited, call, pc, other, iter2, nuclei>>

\* AccessOCDB() called by itself, also with no event at hand.
ClusterizeAccessOCDB(event, ocdb) ==
  /\ ClusterizeAlive
  /\ clusterize.events < MaxEvents
  /\ clusterize' = AccessOCDB([clusterize EXCEPT !.events = @ + 1, !.ev = event,
                                                 !.misal = {}, !.produced = <<>>],
                              event, ocdb)
  /\ UNCHANGED <<container, view, build, iter, visited, call, pc, other, iter2, nuclei>>

ClusterizeInit ==
  /\ ViewsIdle
  /\ nuclei = NoTask
  /\ \E justUnfold \in BOOLEAN, loadMatrices \in BOOLEAN, geomMatrix \in {{}, Modules},
        flag \in {"v1", "NxN", "above", "below"}, geoManager \in BOOLEAN, debug \in BOOLEAN :
       /\ justUnfold => flag = "v1"
       /\ loadMatrices => ~geoManager /\ ~debug
       /\ ~loadMatrices => geomMatrix = {}
       /\ geoManager => ~debug
       /\ clusterize = CtorClusterize(justUnfold, loadMatrices, geomMatrix, flag, geoManager, debug)

ClusterizeNext ==
  \/ \E event \in Events, ocdb \in Ocdbs, ub \in NullReads, cast \in BadCasts :
       ClusterizeUserExec(event, ocdb, ub, cast)
  \/ \E event \in Events, ocdb \in Ocdbs : ClusterizeAccessOCDB(event, ocdb)

ClusterizeSpec == ClusterizeInit /\ [][ClusterizeNext]_vars

----------------------------------------------------------------------------
(* AliAnalysisTaskNucleiv2SP: UserExec() selects the event by vertex,      *)
(* trigger and centrality, takes the event plane and fills the tree with   *)
(* the candidate tracks.                                                   *)

\* The trigger classes UserExec() looks at in IsEventSelected().
Triggers == {"kCentral", "kSemiCentral", "kMB"}

\* Centrality percentiles on both sides of the two cuts.
Percentiles == {-1, 0, 79, 80}

\* The tracks of an event: TRUE for one that passes all the cuts of the
\* track loop and is written to the tree.
TrackLists == {<<>>, <<TRUE>>, <<FALSE, TRUE>>}

\* InputEvent() returned no event, or an event that is not an AliESDEvent.
NoESD(k) ==
  [class |-> k, vertex |-> "none", zfar |-> FALSE, mask |-> {}, percentile |-> 0,
   pl |-> NULL, trks |-> <<>>]

\* What InputEvent() can return: the vertex is that of the tracks, that of
\* the SPD when the tracks give none, or none; zfar says |z| > 10; pl is
\* what GetEventplane() returns.
NucleiEvents ==
  {NoESD("NULL"), NoESD("other")}
    \cup {[class |-> "ESD", vertex |-> "none", zfar |-> FALSE, mask |-> m, percentile |-> c,
           pl |-> e, trks |-> ts] :
            m \in SUBSET Triggers, c \in Percentiles, e \in {NULL, "AliEventplane"},
            ts \in TrackLists}
    \cup {[class |-> "ESD", vertex |-> v, zfar |-> z, mask |-> m, percentile |-> c,
           pl |-> e, trks |-> ts] :
            v \in {"tracks", "SPD"}, z \in BOOLEAN, m \in SUBSET Triggers,
            c \in Percentiles, e \in {NULL, "AliEventplane"}, ts \in TrackLists}

\* The task after its constructor and UserCreateOutputObjects(), and what
\* the last UserExec() did: the bins of fHistEventMultiplicity it filled,
\* the angles it computed, whether it looped over the tracks, the entries
\* it added to ftree.
CtorNuclei ==
  [made |-> TRUE, calls |-> 0, input |-> NoESD("NULL"), outcome |-> "none",
   filled |-> {}, angles |-> "none", looped |-> FALSE, entries |-> <<>>]

\* The event type that takes the first trigger class that applies.
EventType_FirstApplicable(mask) ==
  IF "kCentral" \in mask THEN 1
  ELSE IF "kSemiCentral" \in mask THEN 2
  ELSE IF "kMB" \in mask THEN 3
  ELSE -999

\* eventtype after the three if blocks, for an event they let through.
EventType(mask) ==
  IF "kMB" \in mask THEN 3
  ELSE IF "kSemiCentral" \in mask THEN 2
  ELSE IF "kCentral" \in mask THEN 1
  ELSE -999

\* The loop on tracks: one tree entry for each track that passes the cuts.
RECURSIVE TrackLoop(_, _, _, _)
TrackLoop(trks, j, eventtype, angles) ==
  IF j > Len(trks) THEN <<>>
  ELSE (IF trks[j] THEN <<[tType |-> eventtype, plane |-> angles]>> ELSE <<>>)
         \o TrackLoop(trks, j + 1, eventtype, angles)

\* UserExec() for the event InputEvent() returns: the task afterwards. ub
\* is what the calls through a null pl come to.
NucleiUserExec(t, event, ub) ==
  LET start == [t EXCEPT !.calls = @ + 1, !.input = event, !.outcome = "none", !.filled = {},
                         !.angles = "none", !.looped = FALSE, !.entries = <<>>]
      esd == [start EXCEPT !.filled = {1, 7}]
      withPV == [esd EXCEPT !.filled = @ \cup {2}]
      near == [withPV EXCEPT !.filled = @ \cup {3}]
      central == IF "kCentral" \in event.mask THEN [near EXCEPT !.filled = @ \cup {4}] ELSE near
      semi == IF "kSemiCentral" \in event.mask THEN [central EXCEPT !.filled = @ \cup {5}]
                                                ELSE central
      mb == IF "kMB" \in event.mask THEN [semi EXCEPT !.filled = @ \cup {6}] ELSE semi
      eventtype == EventType(event.mask)
      noPlane == IF event.pl = NULL THEN [mb EXCEPT !.filled = @ \cup {12}] ELSE mb
      angles == IF event.pl = NULL THEN "garbage" ELSE "AliEventplane" IN
  IF event.class = "NULL" THEN [start EXCEPT !.outcome = "no event"]
  ELSE IF event.class # "ESD" THEN [start EXCEPT !.outcome = "no ESD"]
  ELSE IF event.vertex = "none" THEN [esd EXCEPT !.outcome = "no vertex"]
  ELSE IF event.zfar THEN [withPV EXCEPT !.outcome = "vertex z"]
  ELSE IF "kMB" \in event.mask /\ (event.percentile < 0 \/ event.percentile >= 80)
    THEN [semi EXCEPT !.outcome = "centrality"]
  ELSE IF eventtype \notin {1, 2, 3} THEN [mb EXCEPT !.outcome = "no trigger"]
  ELSE IF event.pl = NULL /\ ub = "fault" THEN [noPlane EXCEPT !.outcome = "fault"]
  ELSE [noPlane EXCEPT !.angles = angles, !.looped = TRUE,
                       !.entries = TrackLoop(event.trks, 1, eventtype, angles),
                       !.outcome = "done"]

\* The framework calls UserExec() for the next event.
NucleiCallUserExec(event, ub) ==
  /\ nuclei.outcome # "fault"
  /\ nuclei.calls < MaxEvents
  /\ nuclei' = NucleiUserExec(nuclei, event, ub)
  /\ UNCHANGED <<container, view, build, iter, visited, call, pc, other, iter2, clusterize>>

NucleiInit ==
  /\ ViewsIdle
  /\ clusterize = NoTask
  /\ nuclei = CtorNuclei

NucleiNext == \E event \in NucleiEvents, ub \in NullReads : NucleiCallUserExec(event, ub)

NucleiSpec == NucleiInit /\ [][NucleiNext]_vars

----------------------------------------------------------------------------
(* What the claims speak of.                                               *)

\* The view exists and its constructor returned.
Constructed == pc \notin {"new", "crashed"}

\* The accepted positions in increasing order.
RECURSIVE SortedFrom(_)
SortedFrom(S) ==
  IF S = {} THEN <<>>
  ELSE LET m == CHOOSE x \in S : \A y \in S : x <= y IN <<m>> \o SortedFrom(S \ {m})
AcceptedSeq == SortedFrom(AcceptedSet)

\* The number of entries the view stands for, from its members alone.
ViewCount == IF view.fUseAccepted THEN Len(view.fAcceptIndices) ELSE container.nEntries

\* A sequence back to front.
Reverse(s) == [i \in 1..Len(s) |-> s[Len(s) + 1 - i]]

\* C1: the view's count() is the container's count in ALL mode and the number
\* of accepted positions in ACCEPTED mode, whatever GetNAcceptEntries reports.
C1_CountMatchesSource ==
  call.op = "GetEntries" =>
    call.ret = IF view.fUseAccepted THEN Cardinality(AcceptedSet) ELSE container.nEntries

\* C2: after construction of an ACCEPTED view the index map is strictly
\* increasing, inside [0, count) and holds exactly the accepted positions.
C2_AcceptIndicesExact ==
  (Constructed /\ view.fUseAccepted) =>
    /\ \A i, j \in 1..Len(view.fAcceptIndices) :
         i < j => view.fAcceptIndices[i] < view.fAcceptIndices[j]
    /\ \A i \in 1..Len(view.fAcceptIndices) :
         view.fAcceptIndices[i] >= 0 /\ view.fAcceptIndices[i] < container.nEntries
    /\ view.fAcceptIndices = AcceptedSeq

\* C3: when the reported and the actual number of accepted positions differ,
\* the builder writes at no index outside its storage, the storage ends up
\* with the actual number of slots and no error is raised.
C3_NoWriteOutsideStorage ==
  (pc # "new" /\ view.fUseAccepted /\ container.nAccept # Cardinality(AcceptedSet)) =>
    /\ ~build.outOfBounds
    /\ ~build.fault
    /\ ArrSize(build.arr) = Cardinality(AcceptedSet)

\* C4: in ACCEPTED mode operator[](i) for 0 <= i < count() returns the i-th
\* accepted object of the container in increasing order of position.
C4_AcceptedIndexIsNthAccepted ==
  (call.op = "index" /\ view.fUseAccepted /\ call.arg >= 0 /\ call.arg < ViewCount) =>
    /\ call.arg < Len(AcceptedSeq)
    /\ call.fetched = {AcceptedSeq[call.arg + 1]}
    /\ call.ret = container.objs[AcceptedSeq[call.arg + 1] + 1]

\* C5: in ALL mode operator[](i) for 0 <= i < count returns the object at
\* position i, accepted or not, without the index map.
C5_AllModeIndex ==
  (call.op = "index" /\ ~view.fUseAccepted /\ call.arg >= 0 /\ call.arg < container.nEntries) =>
    /\ call.ret = container.objs[call.arg + 1]
    /\ call.fetched = {call.arg}
    /\ call.mapped = {}

C5_Witness ==
  /\ call.op = "index" /\ ~view.fUseAccepted
  /\ call.arg >= 1 /\ call.arg < container.nEntries
  /\ ~container.accept[call.arg + 1]
  /\ call.ret = container.objs[call.arg + 1]

\* C6: in both modes operator[](i) for i < 0 or i >= count() returns NULL and
\* fetches nothing from the container and reads no slot of the index map.
C6_OutOfRangeIsNull ==
  (call.op = "index" /\ (call.arg < 0 \/ call.arg >= ViewCount)) =>
    /\ call.ret = NULL
    /\ call.fetched = {}
    /\ call.mapped = {}

C6_Witness ==
  /\ call.op = "index" /\ view.fUseAccepted
  /\ ViewCount >= 1 /\ call.arg = ViewCount
  /\ call.ret = NULL

\* What a full forward traversal of the view is to visit.
Expected == [i \in 1..ViewCount |-> [pos |-> i - 1, obj |-> OperatorIndex(ThisPtr, i - 1).obj]]

\* The state part of C7.
TraversalOrder ==
  /\ pc = "forward" =>
       /\ Len(visited.fwd) <= ViewCount
       /\ visited.fwd = SubSeq(Expected, 1, Len(visited.fwd))
  /\ pc \in {"backward", "traversed"} =>
       /\ visited.fwd = Expected
       /\ \A i \in 1..Len(visited.fwd) : visited.fwd[i].obj # NULL
  /\ pc = "backward" =>
       /\ Len(visited.bwd) <= ViewCount
       /\ visited.bwd = SubSeq(Reverse(Expected), 1, Len(visited.bwd))
  /\ pc = "traversed" => visited.bwd = Reverse(visited.fwd)

C9_Factories ==
  /\ call.op = "begin" => iter = [fkData |-> ThisPtr, fCurrent |-> 0, fForward |-> TRUE]
  /\ call.op = "end" => iter = [fkData |-> ThisPtr, fCurrent |-> ViewCount, fForward |-> TRUE]
  /\ call.op = "rbegin" => iter = [fkData |-> ThisPtr, fCurrent |-> ViewCount - 1, fForward |-> FALSE]
  /\ call.op = "rend" => iter = [fkData |-> ThisPtr, fCurrent |-> -1, fForward |-> FALSE]

C9_Witness ==
  /\ call.op = "rbegin" /\ view.fUseAccepted
  /\ ViewCount = 2 /\ container.nEntries = 3
  /\ iter.fCurrent = 1 /\ ~iter.fForward

\* C10: ++ moves a forward iterator by +1 and a backward one by -1, -- the
\* other way round, at every position, with direction and view kept.
C10_AdvanceRetreat ==
  [][/\ call'.op = "++" =>
          iter' = [iter EXCEPT !.fCurrent = IF iter.fForward THEN @ + 1 ELSE @ - 1]
     /\ call'.op = "--" =>
          iter' = [iter EXCEPT !.fCurrent = IF iter.fForward THEN @ - 1 ELSE @ + 1]]_vars

C10_Witness ==
  /\ call.op = "--" /\ ~iter.fForward
  /\ iter.fCurrent = ViewCount + MaxOver
  /\ ViewCount >= 1

\* The object the view holds at logical index i, from its members alone.
ElementAt(i) ==
  IF view.fUseAccepted THEN ContAt(ContPtr, view.fAcceptIndices[i + 1])
  ELSE container.objs[i + 1]

\* C13: wherever ++ and -- have taken the iterator, also behind either
\* sentinel, operator* returns the object at its position when that lies in
\* [0, count()) and NULL otherwise, and the process does not die.
C13_Dereference ==
  call.op = "*" =>
    /\ pc # "crashed"
    /\ call.arg = iter.fCurrent
    /\ call.ret = IF iter.fCurrent >= 0 /\ iter.fCurrent < ViewCount
                    THEN ElementAt(iter.fCurrent) ELSE NULL

C13_Witness ==
  /\ call.op = "*" /\ iter.fForward
  /\ ViewCount >= 1 /\ iter.fCurrent = ViewCount + MaxOver
  /\ call.ret = NULL

\* C18: no step of the view or of an iterator changes the container: its
\* number of entries, its objects, its acceptance and the number it reports.
C18_ContainerUntouched == [][container' = container]_vars

C18_Witness ==
  /\ pc = "traversed" /\ ~view.fUseAccepted
  /\ Len(visited.fwd) = MaxN /\ Len(visited.bwd) = MaxN
  /\ build = NoBuild

\* C20: a constructor with useAccept evaluates AcceptObject once for each of
\* the positions 0 .. count-1 in increasing order and appends every accepted
\* position in that order; one without evaluates nothing and stores nothing.
C20_EvalOnceInOrder ==
  Constructed =>
    IF view.fUseAccepted
      THEN /\ build.evals = [i \in 1..container.nEntries |-> i - 1]
           /\ Len(view.fAcceptIndices) >= Len(AcceptedSeq)
           /\ SubSeq(view.fAcceptIndices, 1, Len(AcceptedSeq)) = AcceptedSeq
      ELSE /\ build.evals = <<>>
           /\ view.fAcceptIndices = <<>>

\* C14: on every view a public constructor makes, the default-constructed
\* one included, GetEntries(), operator[] and the factories do not fault:
\* the one failure is an index out of range, answered by NULL.
C14_NoFault ==
  (pc # "new" /\ view.fkContainer = NULL) =>
    /\ pc # "crashed"
    /\ call.ret \notin NullReads

\* Both views exist and no constructor died.
BothViews == pc = "ready" /\ other # NoView

C16_CopyAndAssign ==
  [][/\ call'.op \in {"copy", "other=view"} =>
          /\ other' = view /\ view' = view /\ container' = container
          /\ GetEntries(OtherPtr)' = GetEntries(ThisPtr)
          /\ \A i \in Indices : OperatorIndex(OtherPtr, i)' = OperatorIndex(ThisPtr, i)
     /\ call'.op = "view=other" =>
          /\ view' = other /\ other' = other /\ container' = container
     /\ call'.op = "view=view" =>
          /\ view' = view /\ other' = other /\ container' = container
     /\ call'.op = "view=temp" =>
          /\ other' = other /\ container' = container]_vars

C16_Witness ==
  /\ BothViews /\ call.op = "view=temp"
  /\ ~view.fUseAccepted
  /\ other.fUseAccepted /\ Len(other.fAcceptIndices) >= 2
  /\ GetEntries(ThisPtr) # GetEntries(OtherPtr)

\* What C17 says of a state: the index map is the one the constructor built,
\* and count() and operator[] answer from it.
AnswersFromBuild ==
  (Constructed /\ view.fUseAccepted) =>
    /\ view.fAcceptIndices = build.arr
    /\ call.op = "GetEntries" => call.ret = Len(build.arr)
    /\ (call.op \in {"index", "*"} /\ call.arg >= 0 /\ call.arg < Len(build.arr)) =>
         /\ call.fetched = {build.arr[call.arg + 1]}
         /\ call.ret = ContAt(ContPtr, build.arr[call.arg + 1])
    /\ pc = "traversed" => Len(visited.fwd) = Len(build.arr)

\* C17: once an ACCEPTED view is constructed no call on it or on an iterator
\* changes its index map, AcceptObject is not evaluated again, and when the
\* owner changes the acceptance the view goes on answering from the indices
\* of its construction.
C17_IndicesKept ==
  /\ []AnswersFromBuild
  /\ [][pc # "new" => /\ view'.fAcceptIndices = view.fAcceptIndices
                      /\ build'.evals = build.evals]_vars

C17_Witness ==
  /\ Constructed /\ view.fUseAccepted
  /\ view.fAcceptIndices = <<0, 1>> /\ container.nAccept = 2
  /\ AcceptedSet = {}
  /\ call.op = "index" /\ call.arg = 1 /\ call.fetched = {1}

\* C11: the postfix ++ and -- return an iterator with the position,
\* direction and view the iterator had before the call and leave the
\* iterator where the prefix form leaves it; moving the iterator later
\* does not change the copy returned.
C11_PostfixSnapshot ==
  [][/\ call'.op = "++(int)" =>
          /\ iter2' = iter
          /\ iter' = [iter EXCEPT !.fCurrent = IF iter.fForward THEN @ + 1 ELSE @ - 1]
     /\ call'.op = "--(int)" =>
          /\ iter2' = iter
          /\ iter' = [iter EXCEPT !.fCurrent = IF iter.fForward THEN @ - 1 ELSE @ + 1]
     /\ call'.op \in {"++", "--"} => iter2' = iter2]_vars

C11_Witness ==
  /\ call.op = "++" /\ ~iter.fForward
  /\ iter2 = [fkData |-> ThisPtr, fCurrent |-> ViewCount, fForward |-> FALSE]
  /\ iter.fCurrent = ViewCount - 3

\* C12: operator!= is false exactly when the two positions are equal,
\* whatever the two directions and views are.
C12_EqualByPosition ==
  call.op = "!=" => (call.ret = FALSE <=> iter.fCurrent = iter2.fCurrent)

C12_Witness ==
  /\ call.op = "!=" /\ call.ret = FALSE
  /\ iter.fForward # iter2.fForward
  /\ iter.fkData # iter2.fkData
  /\ GetEntries(ThisPtr) # GetEntries(OtherPtr)
  /\ iter.fCurrent = 1

\* What each of the two loops is to have visited, run alone, by the time its
\* iterator stands where it stands.
VisitedAsAlone ==
  /\ pc = "loops" =>
       /\ visited.fwd = SubSeq(Expected, 1, iter.fCurrent)
       /\ visited.bwd = SubSeq(Reverse(Expected), 1, ViewCount - iter2.fCurrent)
  /\ pc = "looped" =>
       /\ visited.fwd = Expected
       /\ visited.bwd = Reverse(Expected)

\* C19: with two iterators over one view stepped in any order, a step of the
\* one leaves the position and direction of the other and the view as they
\* are, and each visits the entries it visits when it runs alone.
C19_Interleaved ==
  /\ []VisitedAsAlone
  /\ [][/\ call'.op = "loop ++" => (iter2' = iter2 /\ view' = view)
        /\ call'.op = "loop --" => (iter' = iter /\ view' = view)]_vars

C19_Witness ==
  /\ pc = "loops" /\ view.fUseAccepted
  /\ Len(visited.fwd) = 1 /\ Len(visited.bwd) = 2
  /\ call.op = "loop ++"
  /\ iter.fCurrent = 1 /\ iter2.fCurrent = ViewCount - 2

\* C21: the index array BuildAcceptIndices produces is never longer than the
\* number GetNAcceptEntries() reports, and so is what GetEntries() answers.
C21_LengthAtMostReported ==
  (pc # "new" /\ view.fUseAccepted) =>
    /\ Len(build.arr) <= container.nAccept
    /\ view.fAcceptIndices = build.arr
    /\ call.op = "GetEntries" => call.ret <= container.nAccept

C21_Witness ==
  /\ Constructed /\ view.fUseAccepted
  /\ container.nAccept >= 1 /\ Len(AcceptedSeq) > container.nAccept
  /\ call.op = "GetEntries" /\ call.ret = container.nAccept

\* C23: when GetNAcceptEntries() reports the number of positions that
\* AcceptObject accepts, the constructor of an ACCEPTED view returns, the
\* index array holds the accepted positions in increasing order, GetEntries()
\* is their number and no write went outside the array.
C23_ExactCount ==
  (pc # "new" /\ view.fUseAccepted /\ container.nAccept = Len(AcceptedSeq)) =>
    /\ pc # "crashed"
    /\ ~build.outOfBounds
    /\ view.fAcceptIndices = AcceptedSeq
    /\ GetEntries(ThisPtr) = Len(AcceptedSeq)
    /\ call.op = "GetEntries" => call.ret = Len(AcceptedSeq)

C23_Witness ==
  /\ Constructed /\ view.fUseAccepted
  /\ container.nAccept = 2 /\ AcceptedSeq = <<0, 2>>
  /\ call.op = "GetEntries" /\ call.ret = 2

\* The calls on an iterator other than an assignment from another iterator,
\* and the calls on a view or its iterators other than an assignment from
\* another view.
CursorOps == {"++", "--", "++(int)", "--(int)", "*", "!=", "iter=iter"}
ViewOps == CursorOps \cup {"begin", "end", "rbegin", "rend", "iter2", "iter=iter2", "view=view"}

\* C22 as claimed: no call on an iterator, assignment included, changes its
\* direction or its view, and no call on a view, assignment included,
\* changes its mode.
C22_FixedAtConstruction ==
  [][/\ call'.op \in CursorOps \cup {"iter=iter2"} =>
          (iter'.fForward = iter.fForward /\ iter'.fkData = iter.fkData)
     /\ call'.op \in ViewOps \cup {"view=other"} =>
          view'.fUseAccepted = view.fUseAccepted]_vars

\* C22 amended: ++, --, their postfix forms, * and != leave the direction and
\* the view of an iterator as they are and no call but an assignment changes
\* the mode of a view; an assignment from another iterator (view) gives the
\* iterator (view) the position, direction and view (the container, indices
\* and mode) of the one assigned.
C22_FixedButForAssignment ==
  [][/\ call'.op \in CursorOps =>
          (iter'.fForward = iter.fForward /\ iter'.fkData = iter.fkData)
     /\ call'.op \in ViewOps => view'.fUseAccepted = view.fUseAccepted
     /\ call'.op = "iter=iter2" => (iter' = iter2 /\ iter2' = iter2)
     /\ call'.op = "view=other" => (view' = other /\ other' = other)]_vars

C22_Witness ==
  /\ call.op = "iter=iter2"
  /\ iter.fkData = OtherPtr /\ ~iter.fForward
  /\ view.fUseAccepted # other.fUseAccepted

\* C24: n times ++ followed by n times --, and n times -- followed by n
\* times ++, bring an iterator of either direction back to the position it
\* set out from, with its direction and its view as they were; on the way it
\* is as many positions from there as steps are still to undo.
C24_ThereAndBack ==
  pc = "trip" =>
    /\ iter.fForward = iter2.fForward
    /\ iter.fkData = iter2.fkData
    /\ iter.fCurrent - iter2.fCurrent \in {call.arg, -call.arg}
    /\ (call.op \in {"adv back", "ret back"} /\ call.arg = 0) => iter = iter2

C24_Witness ==
  /\ pc = "trip" /\ call.op = "ret back" /\ call.arg = 0
  /\ ~iter.fForward /\ iter.fCurrent = ViewCount + MaxOver
  /\ iter = iter2

\* C25: in ALL mode GetEntries(), the bounds of operator[] and the positions
\* of end() and rbegin() follow the number of entries the container has when
\* they are called, also after the owner has changed it; in ACCEPTED mode
\* they stay at the length the index array was built with.
C25_NoSizeSnapshot ==
  Constructed =>
    LET count == IF view.fUseAccepted THEN Len(build.arr) ELSE container.nEntries IN
      /\ view.fUseAccepted => view.fAcceptIndices = build.arr
      /\ call.op = "GetEntries" => call.ret = count
      /\ call.op = "index" =>
           /\ (call.arg < 0 \/ call.arg >= count) => (call.ret = NULL /\ call.fetched = {})
           /\ (~view.fUseAccepted /\ call.arg >= 0 /\ call.arg < count) =>
                call.ret = container.objs[call.arg + 1]
      /\ call.op = "end" => iter.fCurrent = count
      /\ call.op = "rbegin" => iter.fCurrent = count - 1
      /\ call.op = "begin" => iter.fCurrent = 0
      /\ call.op = "rend" => iter.fCurrent = -1

C25_Witness ==
  /\ Constructed /\ ~view.fUseAccepted
  /\ container.nEntries = MaxN + 1
  /\ call.op = "end" /\ iter.fCurrent = MaxN + 1


\* C27: AccessOCDB() reads the run setup and calls InitClusterization()
\* exactly for the events whose run number differs from fRun, which is -1
\* at first; for an event of the run in fRun it only returns true; fRun is
\* afterwards the run number of the event; with no event it returns false
\* and changes nothing.
RunSetup(t) ==
  <<t.fRun, t.cdbRun, t.fCalibData, t.fPedestalData, t.fClusterizer, t.fUnfolder, t.inits>>
C26_OutputIsProduced ==
  clusterize.made =>
    /\ clusterize.result \in {"no event", "no esd", "done"} => clusterize.fCaloClusterArr = <<>>
    /\ clusterize.result = "done" =>
         /\ Len(clusterize.fOutputAODBranch) = Len(clusterize.produced)
         /\ \A i \in 1..Len(clusterize.produced) :
              /\ clusterize.fOutputAODBranch[i].evt = clusterize.events
              /\ clusterize.fOutputAODBranch[i].evt = clusterize.produced[i].evt
              /\ clusterize.fOutputAODBranch[i].src = clusterize.produced[i].src
              /\ clusterize.fOutputAODBranch[i].id = i - 1

C29_NoPlaneNoAnalysis ==
  (nuclei.made /\ nuclei.input.class = "ESD" /\ nuclei.input.pl = NULL
     /\ nuclei.outcome \in {"done", "fault"}) =>
    /\ 12 \in nuclei.filled
    /\ nuclei.outcome # "fault"
    /\ nuclei.angles = "none"
    /\ nuclei.entries = <<>>

\* C30: tracks are analysed only for events that passed the vertex cuts and
\* have a trigger class among central, semi-central and MB; the event type
\* in the tree is that of the last class that applies in the order central
\* 1, semi-central 2, MB 3; an MB event with percentile below 0 or from 80
\* on is dropped with no track analysed, also when it is central or
\* semi-central, whose bins 4 and 5 it has filled.
C30_EventSelection ==
  (nuclei.made /\ nuclei.calls > 0) =>
    LET event == nuclei.input
        last == IF "kMB" \in event.mask THEN 3
                ELSE IF "kSemiCentral" \in event.mask THEN 2 ELSE 1 IN
    /\ (nuclei.looped \/ nuclei.entries # <<>>) =>
         /\ event.class = "ESD" /\ event.vertex # "none" /\ ~event.zfar
         /\ event.mask \cap Triggers # {}
         /\ {2, 3} \subseteq nuclei.filled
    /\ \A i \in 1..Len(nuclei.entries) : nuclei.entries[i].tType = last
    /\ (event.class = "ESD" /\ event.vertex # "none" /\ ~event.zfar /\ "kMB" \in event.mask
          /\ (event.percentile < 0 \/ event.percentile >= 80)) =>
         /\ nuclei.outcome = "centrality"
         /\ ~nuclei.looped /\ nuclei.entries = <<>> /\ nuclei.angles = "none"
         /\ 6 \notin nuclei.filled /\ 12 \notin nuclei.filled
         /\ ("kCentral" \in event.mask) = (4 \in nuclei.filled)
         /\ ("kSemiCentral" \in event.mask) = (5 \in nuclei.filled)
\* An event with all three classes, percentile 79 and one candidate track
\* is analysed and its candidate written with type 3.
C30_Witness ==
  /\ nuclei.made
  /\ nuclei.input.mask = Triggers
  /\ nuclei.outcome = "done"
  /\ Len(nuclei.entries) = 1
  /\ nuclei.entries[1].tType = 3
  /\ nuclei.input.percentile = 79

====
